---- MODULE Spec2Model ----
(***************************************************************************)
(* A model of faucris.py: the FAU-CRIS web service client.                 *)
(*                                                                         *)
(* Python strings are sequences of one-character strings, so that          *)
(* lower(), split(), endswith(), containment and the lexicographic order   *)
(* are computed and not assumed.  Other Python values are tagged records:  *)
(* None, PyStr(s), PyInt(n), PyList(l).  A dict is a sequence of           *)
(* <<key, value>> entries with distinct keys, in insertion order.          *)
(***************************************************************************)
EXTENDS Integers, Sequences, FiniteSets, TLC

VARIABLES
    \* Selector
    criteria,       \* the criteria mapping last handed to Selector(...)
    selectors,      \* Selector.selectors of the constructed object
    selState,       \* "none" | "built" | "raised"
    selError,       \* the exception Selector(...) raised, or "none"
    dataset,        \* the entity last handed to evaluate
    selResult       \* what evaluate did: "none" | "True" | "False" | an exception

selVars == <<criteria, selectors, selState, selError, dataset, selResult>>

VARIABLES
    \* FauCris / Publications: one call of by_id, by_pers or by_orga
    pc,             \* "idle" | "retrieve" | "done" | "raised"
    call,           \* the call's arguments
    stage,          \* the _fetch under way: "none" | "orga" | "publ"
    reqs,           \* retrieve's reqs
    pos,            \* the request retrieve's first loop is at
    data,           \* retrieve's data: the documents fetched so far
    selObj,         \* retrieve's selector: None or a Selector's selectors
    log,            \* every descriptor handed to the transport, in order
    answers,        \* what the transport answered to each of them (history)
    result,         \* the mapping the call returned
    fetchError      \* the exception the call raised, or "none"

fetchVars == <<pc, call, stage, reqs, pos, data, selObj, log, answers, result, fetchError>>

VARIABLES
    \* Formatter
    fmtArgs,        \* the arguments handed to Formatter(...)
    fmt,            \* the object: group_by, group_order, sort_by, sort_order
    fmtState,       \* "none" | "built" | "raised"
    fmtError,       \* the exception Formatter(...) raised, or "none"
    execData,       \* the collection last handed to execute
    execState,      \* "none" | "returned" | "raised"
    execResult,     \* the ordered mapping execute returned
    execError       \* the exception execute raised, or "none"

fmtVars == <<fmtArgs, fmt, fmtState, fmtError, execData, execState, execResult, execError>>
VARIABLES
    \* Publication.toBibTeX
    citEntity,      \* _data of the Publication toBibTeX was last called on
    citMask,        \* the mask_caps argument of that call
    citState,       \* "none" | "returned" | "raised"
    citResult,      \* what the call returned
    citError        \* the exception the call raised, or "none"

citVars == <<citEntity, citMask, citState, citResult, citError>>
VARIABLES
    \* CrisEntity(node) and the merge loop of retrieve, taken alone
    entRaw,         \* the infoObject node last handed to CrisEntity(...)
    entState,       \* "none" | "built" | "raised"
    entData,        \* _data of the entity built
    entError,       \* the exception CrisEntity(...) raised, or "none"
    mergeDoc,       \* the nodes of the document retrieve's second loop ran over
    mergeState,     \* "none" | "returned" | "raised"
    mergeResult,    \* the mapping that loop returned
    mergeError      \* the exception that loop raised, or "none"

entVars == <<entRaw, entState, entData, entError, mergeDoc, mergeState, mergeResult, mergeError>>
vars == <<selVars, fetchVars, fmtVars, citVars, entVars>>

----------------------------------------------------------------------------
(* Python values *)

None == [none |-> TRUE]
PyStr(s) == [str |-> s]
PyInt(n) == [int |-> n]
PyList(l) == [list |-> l]

IsNone(v) == DOMAIN v = {"none"}
IsStr(v) == DOMAIN v = {"str"}
IsInt(v) == DOMAIN v = {"int"}
IsList(v) == DOMAIN v = {"list"}

Digits == <<"0", "1", "2", "3", "4", "5", "6", "7", "8", "9">>
Uppers == <<"A", "B", "C", "D", "E", "F", "G", "H", "I", "J", "K", "L", "M",
            "N", "O", "P", "Q", "R", "S", "T", "U", "V", "W", "X", "Y", "Z">>
Lowers == <<"a", "b", "c", "d", "e", "f", "g", "h", "i", "j", "k", "l", "m",
            "n", "o", "p", "q", "r", "s", "t", "u", "v", "w", "x", "y", "z">>

InSeq(seq, c) == \E i \in 1..Len(seq) : seq[i] = c
IndexOf(seq, c) == CHOOSE i \in 1..Len(seq) : seq[i] = c

Others == <<" ", "+", ",", "-", ":", "_", "|">>
OtherOrds == <<32, 43, 44, 45, 58, 95, 124>>
Chars == {Digits[i] : i \in 1..Len(Digits)} \cup {Uppers[i] : i \in 1..Len(Uppers)}
            \cup {Lowers[i] : i \in 1..Len(Lowers)} \cup {Others[i] : i \in 1..Len(Others)}

\* The code point of a character (ASCII).
OrdTable ==
    [c \in Chars |->
        IF InSeq(Digits, c) THEN 47 + IndexOf(Digits, c)
        ELSE IF InSeq(Uppers, c) THEN 64 + IndexOf(Uppers, c)
        ELSE IF InSeq(Lowers, c) THEN 96 + IndexOf(Lowers, c)
        ELSE OtherOrds[IndexOf(Others, c)]]
Ord(c) == OrdTable[c]

LowerTable == [c \in Chars |-> IF InSeq(Uppers, c) THEN Lowers[IndexOf(Uppers, c)] ELSE c]
LowerChar(c) == LowerTable[c]

\* str.lower()
Lower(s) == [i \in 1..Len(s) |-> LowerChar(s[i])]

Min(a, b) == IF a < b THEN a ELSE b

\* str.__lt__: lexicographic by code point
StrLt(a, b) ==
    \E k \in 0..Min(Len(a), Len(b)) :
        /\ \A i \in 1..k : a[i] = b[i]
        /\ k < Len(b)
        /\ (k < Len(a) => Ord(a[k + 1]) < Ord(b[k + 1]))

\* str.__contains__: v is a substring of s
StrContains(s, v) ==
    \E i \in 1..(Len(s) - Len(v) + 1) : SubSeq(s, i, i + Len(v) - 1) = v

\* str.endswith
EndsWith(s, suffix) ==
    /\ Len(suffix) <= Len(s)
    /\ SubSeq(s, Len(s) - Len(suffix) + 1, Len(s)) = suffix

\* str.split(sep): the leftmost occurrences of sep cut the string
RECURSIVE Split(_, _)
Split(s, sep) ==
    LET hits == {i \in 1..(Len(s) - Len(sep) + 1) : SubSeq(s, i, i + Len(sep) - 1) = sep}
    IN IF hits = {} THEN <<s>>
       ELSE LET i == CHOOSE h \in hits : \A g \in hits : h <= g
            IN <<SubSeq(s, 1, i - 1)>> \o Split(SubSeq(s, i + Len(sep), Len(s)), sep)

\* str(n) of an integer
RECURSIVE NatStr(_)
NatStr(n) == IF n < 10 THEN <<Digits[n + 1]>> ELSE NatStr(n \div 10) \o <<Digits[(n % 10) + 1]>>
IntStr(n) == IF n < 0 THEN <<"-">> \o NatStr(-n) ELSE NatStr(n)

\* str(v) of the values the model hands to it
ToStr(v) ==
    IF IsNone(v) THEN <<"N", "o", "n", "e">>
    ELSE IF IsInt(v) THEN IntStr(v.int)
    ELSE v.str

----------------------------------------------------------------------------
(* dict *)

DictKeys(d) == {d[i][1] : i \in 1..Len(d)}
DictHas(d, k) == k \in DictKeys(d)
DictIndex(d, k) == CHOOSE i \in 1..Len(d) : d[i][1] = k
DictGet(d, k) == d[DictIndex(d, k)][2]
\* d[k] = v: an existing key keeps its place, a new key goes to the end
DictSetKeepsFirst(d, k, v) == IF DictHas(d, k) THEN d ELSE Append(d, <<k, v>>)
DictSet(d, k, v) ==
    IF DictHas(d, k) THEN [d EXCEPT ![DictIndex(d, k)] = <<k, v>>]
    ELSE Append(d, <<k, v>>)

----------------------------------------------------------------------------
(* CrisEntity: _data is a function from the attribute names set to values *)

\* CrisEntity.__getitem__: dict.get, None for a missing key
GetItem(e, item) == IF item \in DOMAIN e THEN e[item] ELSE None

\* no call has been made
FetchIdle ==
    /\ pc = "idle"
    /\ call = None
    /\ stage = "none"
    /\ reqs = <<>>
    /\ pos = 1
    /\ data = <<>>
    /\ selObj = None
    /\ log = <<>>
    /\ answers = <<>>
    /\ result = <<>>
    /\ fetchError = "none"

\* no Formatter has been constructed
FmtIdle ==
    /\ fmtArgs = None
    /\ fmt = None
    /\ fmtState = "none"
    /\ fmtError = "none"
    /\ execData = <<>>
    /\ execState = "none"
    /\ execResult = <<>>
    /\ execError = "none"

\* toBibTeX has not been called
CitIdle ==
    /\ citEntity = <<>>
    /\ citMask = TRUE
    /\ citState = "none"
    /\ citResult = None
    /\ citError = "none"

\* no CrisEntity has been built and no document merged
EntIdle ==
    /\ entRaw = None
    /\ entState = "none"
    /\ entData = <<>>
    /\ entError = "none"
    /\ mergeDoc = <<>>
    /\ mergeState = "none"
    /\ mergeResult = <<>>
    /\ mergeError = "none"

----------------------------------------------------------------------------
(* Selector *)

Sep == <<"_", "_">>
OpEq == <<"e", "q">>
OpNe == <<"n", "e">>
OpLt == <<"l", "t">>
OpLe == <<"l", "e">>
OpGt == <<"g", "t">>
OpGe == <<"g", "e">>
OpContains == <<"c", "o", "n", "t", "a", "i", "n", "s">>
OpAdd == <<"a", "d", "d">>
OpLen == <<"l", "e", "n">>
OpFoo == <<"f", "o", "o">>

\* the comparison operators the Selector's documentation names
SupportedOps == {OpEq, OpNe, OpLt, OpLe, OpGt, OpGe, OpContains}

PyBool(b) == IF b THEN "True" ELSE "False"

\* getattr(value, '__%s__' % op)(v) on a str value: a comparison answers a bool,
\* __add__ answers a str ("Other"), __len__ takes no argument, and a name str
\* does not define is an AttributeError.
Method(value, op, v) ==
    CASE op = OpEq -> PyBool(value = v)
      [] op = OpNe -> PyBool(value # v)
      [] op = OpLt -> PyBool(StrLt(value, v))
      [] op = OpLe -> PyBool(StrLt(value, v) \/ value = v)
      [] op = OpGt -> PyBool(StrLt(v, value))
      [] op = OpGe -> PyBool(StrLt(v, value) \/ value = v)
      [] op = OpContains -> PyBool(StrContains(value, v))
      [] op = OpAdd -> "Other"
      [] op = OpLen -> "TypeError"
      [] OTHER -> "AttributeError"

\* Selector.__init__: the loop over the criteria, in the dict's order
RECURSIVE BuildFlist(_, _)
BuildFlist(crit, flist) ==
    IF crit = <<>> THEN [error |-> "none", flist |-> flist]
    ELSE LET k == crit[1][1]
             op == Split(Lower(k), Sep)
             flist1 == IF DictHas(flist, op[1]) THEN flist ELSE DictSet(flist, op[1], <<>>)
             v == ToStr(crit[1][2])
         IN IF Len(op) < 2 THEN [error |-> "IndexError", flist |-> <<>>]
            ELSE BuildFlist(Tail(crit),
                            DictSet(flist1, op[1], DictSet(DictGet(flist1, op[1]), op[2], v)))

\* Selector.evaluate, the inner loop over one field's operators
RECURSIVE EvalOps(_, _)
EvalOps(value, ops) ==
    IF ops = <<>> THEN "True"
    ELSE LET r == Method(value, ops[1][1], ops[1][2])
         IN IF r \in {"AttributeError", "TypeError"} THEN r
            ELSE IF r = "False" THEN "False"
            ELSE EvalOps(value, Tail(ops))

\* Selector.evaluate, the outer loop.  dataset[_a] is CrisEntity.__getitem__,
\* which answers None for a missing attribute and raises no KeyError, so the
\* except branch is never taken and str(None).lower() is compared.
RECURSIVE Evaluate(_, _)
Evaluate(sel, e) ==
    IF sel = <<>> THEN "True"
    ELSE LET value == Lower(ToStr(GetItem(e, sel[1][1])))
             r == EvalOps(value, sel[1][2])
         IN IF r # "True" THEN r ELSE Evaluate(Tail(sel), e)

(* inputs of the Selector specification *)
MaxCriteria == 2

SelKeys == {
    <<"f", "_", "_", "e", "q">>,
    <<"F", "_", "_", "E", "Q">>,
    <<"f", "_", "_", "l", "t">>,
    <<"f", "_", "_", "c", "o", "n", "t", "a", "i", "n", "s">>,
    <<"g", "_", "_", "n", "e">>,
    <<"f", "_", "_", "f", "o", "o">>,
    <<"f", "_", "_", "a", "d", "d">>,
    <<"g", "_", "_", "l", "e", "n">>,
    <<"f">> }
SelRefs == {PyStr(<<"a">>), PyStr(<<"A">>), PyInt(1)}

RECURSIVE DictsOver(_, _, _)
\* the dicts of exactly n entries with keys in K and values in V
DictsOver(K, V, n) ==
    IF n = 0 THEN {<<>>}
    ELSE {Append(d, <<k, v>>) : d \in DictsOver(K, V, n - 1), k \in K, v \in V}

CriteriaInputs ==
    {d \in UNION {DictsOver(SelKeys, SelRefs, n) : n \in 1..MaxCriteria} :
        \A i, j \in 1..Len(d) : i # j => d[i][1] # d[j][1]}

FieldF == <<"f">>
FieldG == <<"g">>
NoEntity == <<>>

SelEntities ==
    {fv @@ gv :
        fv \in {NoEntity} \cup {(FieldF :> x) : x \in {PyStr(<<"a">>), PyStr(<<"A">>),
                                                         PyStr(<<"b">>), PyStr(<<"1">>), None}},
        gv \in {NoEntity, (FieldG :> PyStr(<<"a">>))}}

SelIdle ==
    /\ criteria = <<>>
    /\ selectors = <<>>
    /\ selState = "none"
    /\ selError = "none"
    /\ dataset = NoEntity
    /\ selResult = "none"

\* Selector(c): one Selector object is followed from its construction on
SelectorConstruct(c) ==
    LET b == BuildFlist(c, <<>>)
    IN /\ selState = "none"
       /\ criteria' = c
       /\ selectors' = b.flist
       /\ selError' = b.error
       /\ selState' = IF b.error = "none" THEN "built" ELSE "raised"
       /\ dataset' = NoEntity
       /\ selResult' = "none"
       /\ UNCHANGED <<fetchVars, fmtVars, citVars, entVars>>

\* selector.evaluate(e)
SelectorEvaluate(e) ==
    /\ selState = "built"
    /\ dataset' = e
    /\ selResult' = Evaluate(selectors, e)
    /\ UNCHANGED <<criteria, selectors, selState, selError>>
    /\ UNCHANGED <<fetchVars, fmtVars, citVars, entVars>>

SelectorInit == SelIdle /\ FetchIdle /\ FmtIdle /\ CitIdle /\ EntIdle
SelectorNext ==
    \/ \E c \in CriteriaInputs : SelectorConstruct(c)
    \/ \E e \in SelEntities : SelectorEvaluate(e)
SelectorSpec == SelectorInit /\ [][SelectorNext]_vars

\* the criteria are one key field__op with a supported operator
OneCriterion(field, op) ==
    /\ Len(criteria) = 1
    /\ Split(Lower(criteria[1][1]), Sep) = <<field, op>>

\* C2: Selector({f__op: v}).evaluate(e) is true for every entity e that has no
\* attribute f, whatever the (supported) operator op and the reference value v.
C2_MissingFieldIsTrue ==
    \A op \in SupportedOps :
        (/\ OneCriterion(FieldF, op)
         /\ selResult # "none"
         /\ FieldF \notin DOMAIN dataset) => selResult = "True"

\* C3: Selector({f__eq: v}).evaluate(e), for an entity whose attribute f is the
\* string x, is true if and only if lower(x) = lower(str(v)).
C3_EqIsCaseInsensitive ==
    (/\ OneCriterion(FieldF, OpEq)
     /\ selResult # "none"
     /\ FieldF \in DOMAIN dataset
     /\ IsStr(dataset[FieldF]))
        => (selResult = "True" <=> Lower(dataset[FieldF].str) = Lower(ToStr(criteria[1][2])))

\* C4: no Selector that holds an unsupported operator is ever constructed.
C4_NoUnsupportedOperatorBuilt ==
    selState = "built" =>
        \A i \in 1..Len(selectors) : DictKeys(selectors[i][2]) \subseteq SupportedOps

----------------------------------------------------------------------------
(* CrisEntity.__init__: one raw record (an infoObject node) becomes an entity *)

Absent == [absent |-> TRUE]

NameId == <<"i", "d">>
NameCreatedOn == <<"c", "r", "e", "a", "t", "e", "d", "O", "n">>
NameUpdatedOn == <<"u", "p", "d", "a", "t", "e", "d", "O", "n">>
TagAttribute == <<"a", "t", "t", "r", "i", "b", "u", "t", "e">>
ChoiceGroup == <<"c", "h", "o", "i", "c", "e", "g", "r", "o", "u", "p">>
SuffixEn == <<"_", "e", "n">>
LanguageOne == <<"1">>

\* A raw record is [id, createdOn, updatedOn, children]; the first three are
\* the node's XML attributes (None when not set).  A child is
\* [tag, name, language, disposition, data, additionalInfo], where data and
\* additionalInfo are Absent (no such sub-node) or the sub-node's text.

\* the loop over the children (lines 225-242)
RECURSIVE MapChildren(_, _)
MapChildren(children, d) ==
    IF children = <<>> THEN [error |-> "none", data |-> d]
    ELSE LET c == children[1]
             name0 == Lower(c.name.str)
             name == IF c.language = PyStr(LanguageOne) THEN name0 \o SuffixEn ELSE name0
         IN IF Lower(c.tag) # TagAttribute THEN MapChildren(Tail(children), d)
            ELSE IF IsNone(c.name) THEN [error |-> "AttributeError", data |-> NoEntity]
            ELSE IF c.disposition = PyStr(ChoiceGroup)
                 THEN MapChildren(Tail(children),
                        (name :> (IF c.additionalInfo = Absent THEN None ELSE c.additionalInfo)) @@ d)
            ELSE IF c.data = Absent THEN [error |-> "IndexError", data |-> NoEntity]
            ELSE MapChildren(Tail(children), (name :> c.data) @@ d)

CrisEntityInit(raw) ==
    MapChildren(raw.children,
                (Lower(NameId) :> raw.id) @@ (Lower(NameCreatedOn) :> raw.createdOn)
                    @@ (Lower(NameUpdatedOn) :> raw.updatedOn))

----------------------------------------------------------------------------
(* FauCris._parseId and FauCris._fetch *)

Space == " "

\* str.strip()
RECURSIVE Strip(_)
Strip(s) ==
    IF s # <<>> /\ s[1] = Space THEN Strip(Tail(s))
    ELSE IF s # <<>> /\ s[Len(s)] = Space THEN Strip(SubSeq(s, 1, Len(s) - 1))
    ELSE s

RECURSIVE DigitsValue(_)
DigitsValue(s) ==
    IF s = <<>> THEN 0 ELSE 10 * DigitsValue(SubSeq(s, 1, Len(s) - 1)) + (IndexOf(Digits, s[Len(s)]) - 1)

\* int(v): an int as it is; a str stripped of blanks, an optional sign, then
\* one digit or more; anything else is a ValueError
IntOf(v) ==
    IF IsInt(v) THEN [error |-> "none", n |-> v.int]
    ELSE LET t == Strip(v.str)
             signed == t # <<>> /\ t[1] \in {"+", "-"}
             body == IF signed THEN Tail(t) ELSE t
         IN IF body = <<>> \/ \E i \in 1..Len(body) : ~InSeq(Digits, body[i])
            THEN [error |-> "ValueError", n |-> 0]
            ELSE [error |-> "none",
                  n |-> IF signed /\ t[1] = "-" THEN -DigitsValue(body) ELSE DigitsValue(body)]

Comma == <<",">>

\* FauCris._parseId
ParseId(idvalue) ==
    IF IsInt(idvalue) THEN <<idvalue>>
    ELSE IF IsStr(idvalue)
         THEN IF StrContains(idvalue.str, Comma)
              THEN LET parts == Split(idvalue.str, Comma)
                   IN [i \in 1..Len(parts) |-> PyStr(Strip(parts[i]))]
              ELSE <<idvalue>>
    ELSE idvalue.list

\* t % _i: a descriptor is the template and the integer put into it
Descriptor(t, n) == [template |-> t, id |-> n]

\* the loop that builds reqs (lines 113-121)
RECURSIVE BuildReqs(_, _, _)
BuildReqs(idlist, templates, acc) ==
    IF idlist = <<>> THEN [error |-> "none", reqs |-> acc]
    ELSE LET i == IntOf(idlist[1])
         IN IF i.error # "none" THEN [error |-> "invalid id number", reqs |-> <<>>]
            ELSE BuildReqs(Tail(idlist), templates,
                           acc \o [j \in 1..Len(templates) |-> Descriptor(templates[j], i.n)])

IdZero == <<"0">>

\* _fetch up to its call of retrieve: the reqs, or the exception raised
FetchReqs(ids, templates) ==
    IF IsNone(ids) \/ ids = PyStr(IdZero) THEN [error |-> "Please supply valid id", reqs |-> <<>>]
    ELSE BuildReqs(ParseId(ids), templates, <<>>)

----------------------------------------------------------------------------
(* FauCris.retrieve *)

\* the truth value of dataset['id']
Truthy(v) == ~IsNone(v) /\ v # PyStr(<<>>)

\* the loop over one document's records (lines 86-92)
RECURSIVE MergeRecords(_, _, _)
MergeRecords(records, sel, res) ==
    IF records = <<>> THEN [error |-> "none", result |-> res]
    ELSE LET ent == CrisEntityInit(records[1])
             id == GetItem(ent.data, Lower(NameId))
             ev == IF ~Truthy(id) THEN "False"
                   ELSE IF IsNone(sel) THEN "True"
                   ELSE Evaluate(sel.selectors, ent.data)
         IN IF ent.error # "none" THEN [error |-> ent.error, result |-> <<>>]
            ELSE IF ev \notin {"True", "False"} THEN [error |-> ev, result |-> <<>>]
            ELSE MergeRecords(Tail(records), sel,
                              IF ev = "True" THEN DictSet(res, id, ent.data) ELSE res)

\* the loop over the documents (lines 77-92)
RECURSIVE MergeDocs(_, _, _)
MergeDocs(docs, sel, res) ==
    IF docs = <<>> THEN [error |-> "none", result |-> res]
    ELSE LET r == MergeRecords(docs[1], sel, res)
         IN IF r.error # "none" THEN r ELSE MergeDocs(Tail(docs), sel, r.result)

----------------------------------------------------------------------------
(* Publications: by_id, by_pers, by_orga *)

TemplatePublication == "get/Publication/%d"
TemplatePerson == "getautorelated/Person/%d/PERS_2_PUBL_1"
TemplateOrganisation == "get/Organisation/%d"
TemplateOrgaAuto == "getautorelated/Organisation/%d/ORGA_2_PUBL_1"
TemplateOrgaDirect == "getrelated/Organisation/%d/Publ_has_ORGA"

FauOrgNr == <<"f", "a", "u", "_", "o", "r", "g", "_", "n", "r">>
SixZeros == <<"0", "0", "0", "0", "0", "0">>

OrgaCheckSkipped(orgas) == "none"
\* the loop over orgas.items() of by_orga (lines 173-176)
RECURSIVE OrgaCheck(_)
OrgaCheck(orgas) ==
    IF orgas = <<>> THEN "none"
    ELSE LET nr == GetItem(orgas[1][2], FauOrgNr)
         IN IF IsNone(nr) THEN "AttributeError"
            ELSE IF EndsWith(nr.str, SixZeros) THEN "ValueError"
            ELSE OrgaCheck(Tail(orgas))

\* an exception leaves the call
Raise(e) ==
    /\ pc' = "raised"
    /\ fetchError' = e
    /\ UNCHANGED <<stage, reqs, pos, data, selObj, result>>

\* _fetch up to retrieve's first loop: the ids are checked and expanded, and
\* retrieve wraps a criteria mapping into a Selector (lines 66-67)
StartFetch(ids, templates, selector, stg) ==
    LET r == FetchReqs(ids, templates)
        b == IF IsNone(selector) THEN [error |-> "none", flist |-> <<>>]
             ELSE BuildFlist(selector.criteria, <<>>)
    IN IF r.error # "none" THEN Raise(r.error)
       ELSE IF b.error # "none" THEN Raise(b.error)
       ELSE /\ pc' = "retrieve"
            /\ stage' = stg
            /\ reqs' = r.reqs
            /\ pos' = 1
            /\ data' = <<>>
            /\ selObj' = IF IsNone(selector) THEN None ELSE [selectors |-> b.flist]
            /\ UNCHANGED <<result, fetchError>>

ById(id_) ==
    /\ pc = "idle"
    /\ call' = [fn |-> "by_id", id_ |-> id_, selector |-> None, disable_orga_check |-> FALSE]
    /\ StartFetch(id_, <<TemplatePublication>>, None, "publ")
    /\ UNCHANGED <<log, answers, selVars, fmtVars, citVars, entVars>>

ByPers(id_, selector) ==
    /\ pc = "idle"
    /\ call' = [fn |-> "by_pers", id_ |-> id_, selector |-> selector, disable_orga_check |-> FALSE]
    /\ StartFetch(id_, <<TemplatePerson>>, selector, "publ")
    /\ UNCHANGED <<log, answers, selVars, fmtVars, citVars, entVars>>

ByOrga(id_, selector, disable_orga_check) ==
    /\ pc = "idle"
    /\ call' = [fn |-> "by_orga", id_ |-> id_, selector |-> selector,
                disable_orga_check |-> disable_orga_check]
    /\ IF disable_orga_check
       THEN StartFetch(id_, <<TemplateOrgaAuto, TemplateOrgaDirect>>, selector, "publ")
       ELSE StartFetch(id_, <<TemplateOrganisation>>, None, "orga")
    /\ UNCHANGED <<log, answers, selVars, fmtVars, citVars, entVars>>

(* the transport's answers *)
MaxRecords == 2

Attribute(name, text) ==
    [tag |-> <<"a", "t", "t", "r", "i", "b", "u", "t", "e">>, name |-> PyStr(name),
     language |-> None, disposition |-> None, data |-> PyStr(text), additionalInfo |-> Absent]
Record(id, children) ==
    [id |-> id, createdOn |-> None, updatedOn |-> None, children |-> children]

PublRecords == {
    Record(PyStr(<<"1">>), <<Attribute(<<"F">>, <<"a">>)>>),
    Record(PyStr(<<"1">>), <<Attribute(<<"F">>, <<"b">>)>>),
    Record(PyStr(<<"2">>), <<Attribute(<<"F">>, <<"a">>)>>),
    Record(PyStr(<<>>), <<Attribute(<<"F">>, <<"a">>)>>) }
OrgaRecords == {
    Record(PyStr(<<"7">>), <<Attribute(FauOrgNr, <<"1", "0", "0", "0", "0", "0", "0">>)>>),
    Record(PyStr(<<"8">>), <<Attribute(FauOrgNr, <<"1", "2", "0", "0", "0", "0", "0">>)>>),
    Record(PyStr(<<"9">>), <<>>) }

RECURSIVE SeqsUpTo(_, _)
SeqsUpTo(S, n) ==
    IF n = 0 THEN {<<>>}
    ELSE LET shorter == SeqsUpTo(S, n - 1)
         IN shorter \cup {Append(q, x) : q \in {t \in shorter : Len(t) = n - 1}, x \in S}

\* the records of the requested class in the document a descriptor answers with
OrgaDocuments == SeqsUpTo(OrgaRecords, MaxRecords)
PublDocuments == SeqsUpTo(PublRecords, MaxRecords)
Documents(req) ==
    IF req.template = TemplateOrganisation THEN OrgaDocuments ELSE PublDocuments

\* FauCris.get: the transport's answer parsed, or "request failed" raised
Get(answer) ==
    IF answer.ok THEN [error |-> "none", root |-> answer.doc]
    ELSE [error |-> "request failed", root |-> <<>>]

\* retrieve's first loop, one descriptor: self.get answers with a document
TransportOk ==
    /\ pc = "retrieve"
    /\ pos <= Len(reqs)
    /\ log' = Append(log, reqs[pos])
    /\ \E doc \in Documents(reqs[pos]) :
          /\ answers' = Append(answers, [ok |-> TRUE, doc |-> doc])
          /\ data' = Append(data, Get([ok |-> TRUE, doc |-> doc]).root)
    /\ pos' = pos + 1
    /\ UNCHANGED <<pc, call, stage, reqs, selObj, result, fetchError, selVars, fmtVars, citVars, entVars>>

\* retrieve's first loop, one descriptor: self.get raises and the descriptor is skipped
TransportFailRaises ==
    /\ pc = "retrieve"
    /\ pos <= Len(reqs)
    /\ log' = Append(log, reqs[pos])
    /\ answers' = Append(answers, [ok |-> FALSE, doc |-> <<>>])
    /\ pc' = "raised"
    /\ fetchError' = Get([ok |-> FALSE, doc |-> <<>>]).error
    /\ UNCHANGED <<pos, call, stage, reqs, data, selObj, result, selVars, fmtVars, citVars, entVars>>
TransportFail ==
    /\ pc = "retrieve"
    /\ pos <= Len(reqs)
    /\ log' = Append(log, reqs[pos])
    /\ answers' = Append(answers, [ok |-> FALSE, doc |-> <<>>])
    /\ Get([ok |-> FALSE, doc |-> <<>>]).error # "none"
    /\ pos' = pos + 1
    /\ UNCHANGED <<pc, call, stage, reqs, data, selObj, result, fetchError, selVars, fmtVars, citVars, entVars>>

\* retrieve's second loop and its return to _fetch and to the caller; by_orga
\* goes on from the organizations to the publications
RetrieveReturn ==
    /\ pc = "retrieve"
    /\ pos > Len(reqs)
    /\ LET m == MergeDocs(data, selObj, <<>>)
       IN IF m.error # "none" THEN Raise(m.error)
          ELSE IF stage = "orga"
               THEN LET chk == OrgaCheck(m.result)
                    IN IF chk # "none" THEN Raise(chk)
                       ELSE StartFetch(call.id_, <<TemplateOrgaAuto, TemplateOrgaDirect>>,
                                       call.selector, "publ")
          ELSE /\ pc' = "done"
               /\ result' = m.result
               /\ UNCHANGED <<stage, reqs, pos, data, selObj, fetchError>>
    /\ UNCHANGED <<call, log, answers, selVars, fmtVars, citVars, entVars>>

(* inputs of the calls *)
IdArgs == {None, PyInt(0), PyStr(<<"0">>), PyStr(<<>>), PyList(<<>>), PyInt(1),
           PyStr(<<"a">>), PyStr(<<"2", ",", " ", "1">>)}
\* by_orga is called for one organization id at a time (a document may still
\* resolve several organizations)
OrgaIdArgs == {a \in IdArgs : IsNone(a) \/ Len(ParseId(a)) <= 1}
FetchSelectors == {None,
                   [criteria |-> <<<< <<"F", "_", "_", "e", "q">>, PyStr(<<"a">>) >>>>],
                   [criteria |-> <<<< <<"f">>, PyStr(<<"a">>) >>>>]}

FetchInit == SelIdle /\ FetchIdle /\ FmtIdle /\ CitIdle /\ EntIdle
FetchNext ==
    \/ \E id_ \in IdArgs : ById(id_)
    \/ \E id_ \in IdArgs, selector \in FetchSelectors : ByPers(id_, selector)
    \/ \E id_ \in OrgaIdArgs, selector \in FetchSelectors, disable_orga_check \in BOOLEAN :
           ByOrga(id_, selector, disable_orga_check)
    \/ TransportOk
    \/ TransportFail
    \/ RetrieveReturn
FetchSpec == FetchInit /\ [][FetchNext]_vars

----------------------------------------------------------------------------
(* Claims about retrieve, _fetch and by_orga *)

RECURSIVE Flatten(_)
Flatten(docs) == IF docs = <<>> THEN <<>> ELSE docs[1] \o Flatten(Tail(docs))

\* the documents the transport answered with, among the last n answers
Surviving(n) ==
    LET last == SubSeq(answers, Len(answers) - n + 1, Len(answers))
        RECURSIVE Keep(_)
        Keep(a) == IF a = <<>> THEN <<>>
                   ELSE IF a[1].ok THEN <<a[1].doc>> \o Keep(Tail(a)) ELSE Keep(Tail(a))
    IN Keep(last)

\* the entities of the records in fetch order
EntitiesOf(docs) ==
    LET recs == Flatten(docs) IN [i \in 1..Len(recs) |-> CrisEntityInit(recs[i]).data]
Identity(e) == GetItem(e, Lower(NameId))
\* a record that has an identity and passes the selector
Counts(e, sel) ==
    /\ Truthy(Identity(e))
    /\ (IsNone(sel) \/ Evaluate(sel.selectors, e) = "True")
Latest(ents, sel, k) ==
    ents[CHOOSE i \in 1..Len(ents) :
            /\ Counts(ents[i], sel) /\ Identity(ents[i]) = k
            /\ \A j \in (i + 1)..Len(ents) : ~(Counts(ents[j], sel) /\ Identity(ents[j]) = k)]

\* C1: the mapping retrieve returns holds exactly one entity per identity, the
\* last record with that identity in fetch order among the records of the
\* surviving descriptors that have a non-empty identity and pass the selector;
\* a failed descriptor contributes nothing and does not make retrieve fail.
C1_LastWriteWins ==
    /\ fetchError # "request failed"
    /\ pc = "done" =>
        LET ents == EntitiesOf(Surviving(Len(reqs)))
            ids == {Identity(ents[i]) : i \in {j \in 1..Len(ents) : Counts(ents[j], selObj)}}
        IN /\ Len(answers) >= Len(reqs)
           /\ DictKeys(result) = ids
           /\ Len(result) = Cardinality(ids)
           /\ \A k \in ids : DictGet(result, k) = Latest(ents, selObj, k)

\* C1's case: two descriptors answered with records of one identity that
\* differ, a third record has another identity, and the call returned.
C1_Witness ==
    /\ pc = "done"
    /\ Len(reqs) = 2
    /\ Len(data) = 2
    /\ \E i \in 1..Len(data[1]), j \in 1..Len(data[2]) :
          /\ Truthy(data[1][i].id)
          /\ data[1][i].id = data[2][j].id
          /\ data[1][i] # data[2][j]
          /\ DictGet(result, data[1][i].id) # CrisEntityInit(data[1][i]).data
    /\ Len(result) = 2

\* an id argument that is missing, zero or empty
InvalidId(v) == v \in {None, PyInt(0), PyStr(<<"0">>), PyStr(<<>>), PyList(<<>>)}

\* C8: for a missing, zero or empty id argument the call fails, issues no
\* request to the transport and never returns a collection.
C8_InvalidIdIsRejected ==
    (pc # "idle" /\ InvalidId(call.id_)) => (log = <<>> /\ pc # "done")

IsOrgaRequest(d) == d.template = TemplateOrganisation
\* the organizations the requests so far resolved
ResolvedOrgas ==
    LET docs == Surviving(Len(answers))
        orgaDocs == SubSeq(docs, 1, Cardinality({i \in 1..Len(answers) :
                                        IsOrgaRequest(log[i]) /\ answers[i].ok}))
    IN {e \in {EntitiesOf(orgaDocs)[i] : i \in 1..Len(Flatten(orgaDocs))} : Truthy(Identity(e))}
RootOrgaResolved ==
    \E e \in ResolvedOrgas :
        /\ IsStr(GetItem(e, FauOrgNr))
        /\ EndsWith(GetItem(e, FauOrgNr).str, SixZeros)

\* C9: by_orga without the override flag requests the organizations before any
\* publication descriptor, and once a resolved organization's fau_org_nr ends in
\* six zeros no publication request is issued and the call does not return; with
\* the override flag no organization is requested and the call returns the
\* publications whatever the organization's number.
C9_OrgaCheckedFirst ==
    (pc # "idle" /\ call.fn = "by_orga") =>
        LET orgaReqs == FetchReqs(call.id_, <<TemplateOrganisation>>).reqs
            publReqs == FetchReqs(call.id_, <<TemplateOrgaAuto, TemplateOrgaDirect>>).reqs
            publAsked == \E i \in 1..Len(log) : ~IsOrgaRequest(log[i])
        IN IF call.disable_orga_check
           THEN /\ \A i \in 1..Len(log) : ~IsOrgaRequest(log[i])
                /\ pc = "done" => log = publReqs
           ELSE /\ publAsked => /\ Len(log) >= Len(orgaReqs)
                                /\ SubSeq(log, 1, Len(orgaReqs)) = orgaReqs
                                /\ \A i \in (Len(orgaReqs) + 1)..Len(log) : ~IsOrgaRequest(log[i])
                /\ RootOrgaResolved => /\ ~publAsked
                                       /\ pc # "done"
                                       /\ stage = "orga"
                /\ pc = "done" => log = orgaReqs \o publReqs

\* C9's case: the organization request resolved a root organization, the call
\* was rejected and only the organization was requested.
C9_Witness ==
    /\ pc = "raised"
    /\ call.fn = "by_orga"
    /\ ~call.disable_orga_check
    /\ RootOrgaResolved
    /\ fetchError = "ValueError"
    /\ Len(log) = 1
    /\ IsOrgaRequest(log[1])

----------------------------------------------------------------------------
(* Formatter *)

SORT_ASC == 1
SORT_DESC == 2

LowerAll(l) == [i \in 1..Len(l) |-> PyStr(Lower(l[i].str))]

\* Formatter.__init__: the object, or the exception sort_by.lower() raises for
\* None (an AttributeError, which "except ValueError" does not catch)
FormatterInit(group_by, group_order, sort_by, sort_order) ==
    IF IsNone(sort_by) THEN [error |-> "AttributeError", obj |-> None]
    ELSE [error |-> "none",
          obj |-> [group_by |-> IF IsNone(group_by) THEN None ELSE PyStr(Lower(group_by.str)),
                   group_order |-> IF group_order \in {PyInt(SORT_ASC), PyInt(SORT_DESC)}
                                   THEN group_order ELSE PyList(LowerAll(group_order.list)),
                   sort_by |-> PyStr(Lower(sort_by.str)),
                   sort_order |-> IF sort_order \in {PyInt(SORT_ASC), PyInt(SORT_DESC)}
                                  THEN sort_order ELSE PyList(LowerAll(sort_order.list))]]

Unbound == [unbound |-> TRUE]

\* execute, the grouping loop (lines 534-546).  d[...] is CrisEntity.__getitem__
\* and raises no KeyError; None.lower() is the AttributeError, after which
\* groupvalue is assigned only when group_by is None, and otherwise keeps the
\* value of the iteration before (or is not bound yet).
RECURSIVE GroupData(_, _, _, _)
GroupData(items, f, groupvalue, unsorted) ==
    IF items = <<>> THEN [error |-> "none", unsorted |-> unsorted]
    ELSE LET d == items[1][2]
             x == GetItem(d, ToStr(f.group_by))
             gv == IF IsStr(x) THEN PyStr(Lower(x.str))
                   ELSE IF IsNone(f.group_by) THEN f.sort_by
                   ELSE groupvalue
             members == IF DictHas(unsorted, gv) THEN DictGet(unsorted, gv) ELSE <<>>
         IN IF gv = Unbound THEN [error |-> "UnboundLocalError", unsorted |-> <<>>]
            ELSE GroupData(Tail(items), f, gv, DictSet(unsorted, gv, Append(members, d)))

\* sorted() of a set of str keys
RECURSIVE SortedKeys(_, _)
SortedKeys(K, reverse) ==
    IF K = {} THEN <<>>
    ELSE LET first == CHOOSE k \in K : \A o \in K \ {k} :
                          IF reverse THEN StrLt(o.str, k.str) ELSE StrLt(k.str, o.str)
         IN <<first>> \o SortedKeys(K \ {first}, reverse)

\* the group keys of the data that the explicit group_order does not list
Missing(f, unsorted) == DictKeys(unsorted) \ {f.group_order.list[i] : i \in 1..Len(f.group_order.list)}

\* the orders list(missing) can have
Orderings(S) == {p \in [1..Cardinality(S) -> S] : \A i, j \in 1..Cardinality(S) : i # j => p[i] # p[j]}

\* execute, lines 549-559: the key list; an explicit group_order is the list
\* object itself, which extend() lengthens
KeyListNoMissing(f, unsorted, order) ==
    IF IsInt(f.group_order) THEN SortedKeys(DictKeys(unsorted), f.group_order = PyInt(SORT_DESC))
    ELSE f.group_order.list
KeyList(f, unsorted, order) ==
    IF IsInt(f.group_order) THEN SortedKeys(DictKeys(unsorted), f.group_order = PyInt(SORT_DESC))
    ELSE f.group_order.list \o order

\* sorted(list, key=lambda y: y[sort_by], reverse=...): stable in both directions
RECURSIVE SortedBy(_, _, _, _)
SortedBy(l, sort_by, reverse, acc) ==
    IF l = <<>> THEN acc
    ELSE LET e == l[1]
             key(y) == GetItem(y, sort_by).str
             before(i) == IF reverse THEN StrLt(key(acc[i]), key(e)) ELSE StrLt(key(e), key(acc[i]))
             later == {i \in 1..Len(acc) : before(i)}
             at == IF later = {} THEN Len(acc) + 1 ELSE CHOOSE i \in later : \A j \in later : i <= j
         IN SortedBy(Tail(l), sort_by, reverse,
                     SubSeq(acc, 1, at - 1) \o <<e>> \o SubSeq(acc, at, Len(acc)))

\* execute, the loop over the key list (lines 561-578)
RECURSIVE BuildResults(_, _, _, _)
BuildResults(keylist, f, unsorted, results) ==
    IF keylist = <<>> THEN [error |-> "none", results |-> results]
    ELSE LET k == keylist[1]
             members == DictGet(unsorted, k)
             unset == Len(members) >= 2 /\ \E i \in 1..Len(members) : IsNone(GetItem(members[i], f.sort_by.str))
         IN IF IsNone(f.sort_by)
            THEN IF DictHas(unsorted, k)
                 THEN BuildResults(Tail(keylist), f, unsorted, DictSet(results, k, members))
                 ELSE [error |-> "KeyError", results |-> <<>>]
            ELSE IF ~DictHas(unsorted, k) THEN BuildResults(Tail(keylist), f, unsorted, results)
            ELSE IF unset THEN [error |-> "Cannot sort by unset attribute.", results |-> <<>>]
            ELSE BuildResults(Tail(keylist), f, unsorted,
                    DictSet(results, k,
                            SortedBy(members, f.sort_by.str, f.sort_order = PyInt(SORT_DESC), <<>>)))

\* Formatter(group_by, group_order, sort_by, sort_order)
FormatterConstruct(group_by, group_order, sort_by, sort_order) ==
    LET r == FormatterInit(group_by, group_order, sort_by, sort_order)
    IN /\ fmtState = "none"
       /\ fmtArgs' = [group_by |-> group_by, group_order |-> group_order,
                      sort_by |-> sort_by, sort_order |-> sort_order]
       /\ fmt' = r.obj
       /\ fmtError' = r.error
       /\ fmtState' = IF r.error = "none" THEN "built" ELSE "raised"
       /\ UNCHANGED <<execData, execState, execResult, execError>>
       /\ UNCHANGED <<selVars, fetchVars, citVars, entVars>>

\* formatter.execute(d)
FormatterExecute(d) ==
    /\ fmtState = "built"
    /\ execData' = d
    /\ LET g == GroupData(d, fmt, Unbound, <<>>)
       IN IF g.error # "none"
          THEN /\ execState' = "raised"
               /\ execError' = g.error
               /\ execResult' = <<>>
               /\ fmt' = fmt
          ELSE \E order \in (IF IsInt(fmt.group_order) THEN {<<>>} ELSE Orderings(Missing(fmt, g.unsorted))) :
                  LET keylist == KeyList(fmt, g.unsorted, order)
                      r == BuildResults(keylist, fmt, g.unsorted, <<>>)
                  IN /\ fmt' = IF IsInt(fmt.group_order) THEN fmt
                               ELSE [fmt EXCEPT !.group_order = PyList(keylist)]
                     /\ execState' = IF r.error = "none" THEN "returned" ELSE "raised"
                     /\ execError' = r.error
                     /\ execResult' = r.results
    /\ UNCHANGED <<fmtArgs, fmtState, fmtError>>
    /\ UNCHANGED <<selVars, fetchVars, citVars, entVars>>

(* inputs of the Formatter specification *)
MaxEntities == 2

AttrG == <<"g">>
AttrS == <<"s">>
FmtEntity(id, g, s) == (Lower(NameId) :> PyStr(id)) @@ g @@ s

FmtEntities == {
    FmtEntity(<<"1">>, AttrG :> PyStr(<<"A">>), AttrS :> PyStr(<<"y">>)),
    FmtEntity(<<"2">>, AttrG :> PyStr(<<"a">>), AttrS :> PyStr(<<"x">>)),
    FmtEntity(<<"3">>, AttrG :> PyStr(<<"b">>), AttrS :> PyStr(<<"y">>)),
    FmtEntity(<<"4">>, NoEntity, AttrS :> PyStr(<<"x">>)),
    FmtEntity(<<"5">>, AttrG :> PyStr(<<"b">>), NoEntity) }

\* the collections: dicts from identity to entity, in insertion order
FmtCollections ==
    {[i \in 1..Len(q) |-> <<Identity(q[i]), q[i]>>] :
        q \in {t \in SeqsUpTo(FmtEntities, MaxEntities) :
                  \A i, j \in 1..Len(t) : i # j => t[i] # t[j]}}

GroupBys == {None, PyStr(<<"G">>)}
GroupOrders == {PyInt(SORT_ASC), PyInt(SORT_DESC),
                PyList(<<PyStr(<<"B">>), PyStr(<<"z">>), PyStr(<<"a">>)>>),
                PyList(<<PyStr(<<"z">>), PyStr(<<"B">>)>>),
                PyList(<<PyStr(<<"z">>)>>)}
SortBys == {None, PyStr(<<"S">>)}
SortOrders == {PyInt(SORT_ASC), PyInt(SORT_DESC)}

FormatterInit0 == SelIdle /\ FetchIdle /\ FmtIdle /\ CitIdle /\ EntIdle
FormatterNext ==
    \/ \E group_by \in GroupBys, group_order \in GroupOrders,
          sort_by \in SortBys, sort_order \in SortOrders :
            FormatterConstruct(group_by, group_order, sort_by, sort_order)
    \/ \E d \in FmtCollections : FormatterExecute(d)
FormatterSpec == FormatterInit0 /\ [][FormatterNext]_vars

----------------------------------------------------------------------------
(* Claims about the Formatter *)

\* the entities of the collection handed to execute
ExecEntities == [i \in 1..Len(execData) |-> execData[i][2]]

\* C5: with groupBy set, if any entity of the collection lacks the groupBy
\* attribute, execute fails and returns no result, so that such an entity is
\* never placed into a group.
C5_MissingGroupAttributeFails ==
    (/\ execState # "none"
     /\ ~IsNone(fmt.group_by)
     /\ \E i \in 1..Len(execData) : fmt.group_by.str \notin DOMAIN ExecEntities[i])
        => (execState = "raised" /\ execResult = <<>>)

\* the group key of an entity: its case-folded group_by attribute
GroupKey(e) == PyStr(Lower(GetItem(e, Lower(fmtArgs.group_by.str)).str))
\* the explicit list handed to the constructor, case-folded
Listed == LowerAll(fmtArgs.group_order.list)
IsListed(k) == \E i \in 1..Len(Listed) : Listed[i] = k
ListedAt(k) == CHOOSE i \in 1..Len(Listed) : Listed[i] = k /\ \A j \in 1..(i - 1) : Listed[j] # k
\* groupBy and sortBy are set, groupOrder is an explicit list, and every entity
\* of the collection has both attributes
ExplicitOrderCase ==
    /\ fmtState = "built"
    /\ execState # "none"
    /\ ~IsNone(fmtArgs.group_by)
    /\ IsList(fmtArgs.group_order)
    /\ \A i \in 1..Len(execData) :
          /\ IsStr(GetItem(ExecEntities[i], fmt.group_by.str))
          /\ IsStr(GetItem(ExecEntities[i], fmt.sort_by.str))

\* C6: with an explicit groupOrder list, execute returns first the listed keys
\* that occur in the data, in list order, then the keys of the data that are
\* not listed; a listed key that does not occur makes no group; every input
\* entity is in exactly one group, its own, and no group is empty.
C6_ExplicitGroupOrder ==
    ExplicitOrderCase =>
        LET keys == {GroupKey(ExecEntities[i]) : i \in 1..Len(execData)}
            places(e) == {<<i, j>> \in (1..Len(execResult)) \X (1..Len(execData)) :
                              j <= Len(execResult[i][2]) /\ execResult[i][2][j] = e}
        IN /\ execState = "returned"
           /\ {execResult[i][1] : i \in 1..Len(execResult)} = keys
           /\ Len(execResult) = Cardinality(keys)
           /\ \A i, j \in 1..Len(execResult) :
                 (i < j /\ IsListed(execResult[j][1])) =>
                     /\ IsListed(execResult[i][1])
                     /\ ListedAt(execResult[i][1]) < ListedAt(execResult[j][1])
           /\ \A n \in 1..Len(execData) :
                 /\ Cardinality(places(ExecEntities[n])) = 1
                 /\ \A pl \in places(ExecEntities[n]) : execResult[pl[1]][1] = GroupKey(ExecEntities[n])
           /\ \A i \in 1..Len(execResult) :
                 /\ execResult[i][2] # <<>>
                 /\ \A j \in 1..Len(execResult[i][2]) :
                       \E n \in 1..Len(execData) : ExecEntities[n] = execResult[i][2][j]

\* C6's case: the list names a key that does not occur ("z") and then "b"; the
\* data holds an "a" entity before a "b" entity; "b" comes first and the
\* unlisted "a" is appended.
C6_Witness ==
    /\ ExplicitOrderCase
    /\ Listed = <<PyStr(<<"z">>), PyStr(<<"b">>)>>
    /\ Len(execData) = 2
    /\ GroupKey(ExecEntities[1]) = PyStr(<<"a">>)
    /\ GroupKey(ExecEntities[2]) = PyStr(<<"b">>)
    /\ execState = "returned"
    /\ execResult = << <<PyStr(<<"b">>), <<ExecEntities[2]>> >>, <<PyStr(<<"a">>), <<ExecEntities[1]>> >> >>

\* the entities of the collection whose group key is k, in insertion order
RECURSIVE InGroup(_, _)
InGroup(ents, k) ==
    IF ents = <<>> THEN <<>>
    ELSE (IF GroupKey(ents[1]) = k THEN <<ents[1]>> ELSE <<>>) \o InGroup(Tail(ents), k)

\* C7: a Formatter is constructed with sortBy unset (groupBy set), and its
\* execute returns each group's entities in the insertion order of the input.
C7_SortByMayBeUnset ==
    (fmtState # "none" /\ IsNone(fmtArgs.sort_by) /\ ~IsNone(fmtArgs.group_by)) =>
        /\ fmtState = "built"
        /\ (execState # "none" /\ \A i \in 1..Len(execData) :
                                     IsStr(GetItem(ExecEntities[i], Lower(fmtArgs.group_by.str)))) =>
              /\ execState = "returned"
              /\ \A i \in 1..Len(execResult) :
                    execResult[i][2] = InGroup(ExecEntities, execResult[i][1])

\* C12: a built Formatter's group_by, group_order, sort_by and sort_order are
\* the values its construction set, whatever execute calls have been made on it.
C12_ConfigurationIsImmutable ==
    fmtState = "built" =>
        fmt = FormatterInit(fmtArgs.group_by, fmtArgs.group_order,
                            fmtArgs.sort_by, fmtArgs.sort_order).obj

----------------------------------------------------------------------------
(* Publication.toBibTeX *)

\* the attribute names toBibTeX reads (the keys of _data are lower case)
Key == [
    publication_type |->
        <<"p", "u", "b", "l", "i", "c", "a", "t", "i", "o", "n", " ", "t", "y", "p", "e">>,
    publication_thesis_subtype |->
        <<"p", "u", "b", "l", "i", "c", "a", "t", "i", "o", "n", " ", "t", "h", "e", "s",
        "i", "s", " ", "s", "u", "b", "t", "y", "p", "e">>,
    id |->
        <<"i", "d">>,
    publyear |->
        <<"p", "u", "b", "l", "y", "e", "a", "r">>,
    cftitle |->
        <<"c", "f", "t", "i", "t", "l", "e">>,
    note |->
        <<"n", "o", "t", "e">>,
    keywords |->
        <<"k", "e", "y", "w", "o", "r", "d", "s">>,
    cfabstr |->
        <<"c", "f", "a", "b", "s", "t", "r">>,
    monthcg |->
        <<"m", "o", "n", "t", "h", "c", "g">>,
    cfuri |->
        <<"c", "f", "u", "r", "i">>,
    peerreviewed |->
        <<"p", "e", "e", "r", "r", "e", "v", "i", "e", "w", "e", "d">>,
    fau_publikation |->
        <<"f", "a", "u", " ", "p", "u", "b", "l", "i", "k", "a", "t", "i", "o", "n">>,
    doi |->
        <<"d", "o", "i">>,
    journalname |->
        <<"j", "o", "u", "r", "n", "a", "l", "n", "a", "m", "e">>,
    book_volume |->
        <<"b", "o", "o", "k", " ", "v", "o", "l", "u", "m", "e">>,
    pagesrange |->
        <<"p", "a", "g", "e", "s", "r", "a", "n", "g", "e">>,
    publisher |->
        <<"p", "u", "b", "l", "i", "s", "h", "e", "r">>,
    editor |->
        <<"e", "d", "i", "t", "o", "r">>,
    cfisbn |->
        <<"c", "f", "i", "s", "b", "n">>,
    cfseries |->
        <<"c", "f", "s", "e", "r", "i", "e", "s">>,
    cfedition |->
        <<"c", "f", "e", "d", "i", "t", "i", "o", "n">>,
    cfcitytown |->
        <<"c", "f", "c", "i", "t", "y", "t", "o", "w", "n">>,
    edited_volumes |->
        <<"e", "d", "i", "t", "e", "d", " ", "v", "o", "l", "u", "m", "e", "s">>,
    futurepublicationtype |->
        <<"f", "u", "t", "u", "r", "e", "p", "u", "b", "l", "i", "c", "a", "t", "i", "o",
        "n", "t", "y", "p", "e">>,
    conference_proceedings_title |->
        <<"c", "o", "n", "f", "e", "r", "e", "n", "c", "e", " ", "p", "r", "o", "c", "e",
        "e", "d", "i", "n", "g", "s", " ", "t", "i", "t", "l", "e">>,
    event_title |->
        <<"e", "v", "e", "n", "t", " ", "t", "i", "t", "l", "e">>,
    event_location |->
        <<"e", "v", "e", "n", "t", " ", "l", "o", "c", "a", "t", "i", "o", "n">>,
    event_start_date |->
        <<"e", "v", "e", "n", "t", " ", "s", "t", "a", "r", "t", " ", "d", "a", "t", "e">>,
    event_end_date |->
        <<"e", "v", "e", "n", "t", " ", "e", "n", "d", " ", "d", "a", "t", "e">>,
    exportauthors |->
        <<"e", "x", "p", "o", "r", "t", "a", "u", "t", "h", "o", "r", "s">>,
    complete_author_relations |->
        <<"c", "o", "m", "p", "l", "e", "t", "e", " ", "a", "u", "t", "h", "o", "r", " ",
        "r", "e", "l", "a", "t", "i", "o", "n", "s">>,
    srcauthors |->
        <<"s", "r", "c", "a", "u", "t", "h", "o", "r", "s">>]

\* the publication types of the table
PublType == [
    journal_article |->
        <<"j", "o", "u", "r", "n", "a", "l", " ", "a", "r", "t", "i", "c", "l", "e">>,
    book |->
        <<"b", "o", "o", "k">>,
    editorial |->
        <<"e", "d", "i", "t", "o", "r", "i", "a", "l">>,
    article_in_edited_volumes |->
        <<"a", "r", "t", "i", "c", "l", "e", " ", "i", "n", " ", "e", "d", "i", "t", "e",
        "d", " ", "v", "o", "l", "u", "m", "e", "s">>,
    conference_contribution |->
        <<"c", "o", "n", "f", "e", "r", "e", "n", "c", "e", " ", "c", "o", "n", "t", "r",
        "i", "b", "u", "t", "i", "o", "n">>,
    thesis |->
        <<"t", "h", "e", "s", "i", "s">>]

\* the BibTeX entry types
Bib == [
    article |->
        <<"a", "r", "t", "i", "c", "l", "e">>,
    book |->
        <<"b", "o", "o", "k">>,
    incollection |->
        <<"i", "n", "c", "o", "l", "l", "e", "c", "t", "i", "o", "n">>,
    inproceedings |->
        <<"i", "n", "p", "r", "o", "c", "e", "e", "d", "i", "n", "g", "s">>,
    phdthesis |->
        <<"p", "h", "d", "t", "h", "e", "s", "i", "s">>,
    masterthesis |->
        <<"m", "a", "s", "t", "e", "r", "t", "h", "e", "s", "i", "s">>,
    misc |->
        <<"m", "i", "s", "c">>,
    unpublished |->
        <<"u", "n", "p", "u", "b", "l", "i", "s", "h", "e", "d">>]

\* the thesis subtypes of the table
Sub == [
    Dissertation |->
        <<"D", "i", "s", "s", "e", "r", "t", "a", "t", "i", "o", "n">>,
    Masterarbeit |->
        <<"M", "a", "s", "t", "e", "r", "a", "r", "b", "e", "i", "t">>,
    Diplomarbeit |->
        <<"D", "i", "p", "l", "o", "m", "a", "r", "b", "e", "i", "t">>]

\* the other string literals
Lit == [
    faucrisDot |->
        <<"f", "a", "u", "c", "r", "i", "s", ".">>,
    paragraphOpen |->
        <<"<", "p", ">">>,
    slash |->
        <<"/">>,
    pipe |->
        <<"|">>,
    colon |->
        <<":">>,
    commaSpace |->
        <<",", " ">>,
    andSep |->
        <<" ", "a", "n", "d", " ">>,
    etAl |->
        <<" ", "a", "n", "d", " ", "e", "t", " ", "a", "l", ".">>,
    school |->
        <<"F", "r", "i", "e", "d", "r", "i", "c", "h", "-", "A", "l", "e", "x", "a", "n",
        "d", "e", "r", "-", "U", "n", "i", "v", "e", "r", "s", "i", "t", "ä", "t", " ",
        "E", "r", "l", "a", "n", "g", "e", "n", "-", "N", "ü", "r", "n", "b", "e", "r",
        "g">>,
    publicWeb |->
        <<"h", "t", "t", "p", "s", ":", "/", "/", "c", "r", "i", "s", ".", "f", "a", "u",
        ".", "d", "e", "/", "c", "o", "n", "v", "e", "r", "i", "s", "/", "p", "u", "b",
        "l", "i", "c", "w", "e", "b", "/", "P", "u", "b", "l", "i", "c", "a", "t", "i",
        "o", "n", "/">>,
    supportNote |->
        <<"A", "u", "t", "h", "o", "r", " ", "r", "e", "l", "a", "t", "i", "o", "n", "s",
        " ", "i", "n", "c", "o", "m", "p", "l", "e", "t", "e", ".", " ", "Y", "o", "u",
        " ", "m", "a", "y", " ", "f", "i", "n", "d", " ", "a", "d", "d", "i", "t", "i",
        "o", "n", "a", "l", " ", "d", "a", "t", "a", " ", "i", "n", " ", "f", "i", "e",
        "l", "d", " ", "'", "a", "u", "t", "h", "o", "r", "_", "h", "i", "n", "t", "'">>]


\* types (lines 302-314): the table of record types and the thesis subtypes
Types == <<
    <<PublType.journal_article, Bib.article>>,
    <<PublType.book, Bib.book>>,
    <<PublType.editorial, Bib.book>>,
    <<PublType.article_in_edited_volumes, Bib.incollection>>,
    <<PublType.conference_contribution, Bib.inproceedings>> >>
ThesisTypes == <<
    <<Sub.Dissertation, Bib.phdthesis>>,
    <<Sub.Masterarbeit, Bib.masterthesis>>,
    <<Sub.Diplomarbeit, Bib.masterthesis>> >>

\* dict.get(k, default)
DictGetDefault(d, k, default) == IF DictHas(d, k) THEN DictGet(d, k) ELSE default

\* str.startswith
StartsWith(s, prefix) == Len(prefix) <= Len(s) /\ SubSeq(s, 1, Len(prefix)) = prefix

\* s[3:-6]
SliceAbstract(s) == IF Len(s) - 6 > 3 THEN SubSeq(s, 4, Len(s) - 6) ELSE <<>>

\* ' and '.join(parts)
RECURSIVE Join(_, _)
Join(parts, sep) ==
    IF parts = <<>> THEN <<>>
    ELSE IF Len(parts) = 1 THEN parts[1]
    ELSE parts[1] \o sep \o Join(Tail(parts), sep)

\* The locals of a toBibTeX call: error is the exception under way, empty
\* says that line 386 returned '', bibdata is a dict in insertion order.
NoBib ==
    [error |-> "none", empty |-> FALSE, publtype |-> <<>>, bibtype |-> <<>>,
     author_editor |-> <<>>, bibdata |-> <<>>]
Failed(b, e) == [b EXCEPT !.error = e]
Running(b) == b.error = "none" /\ ~b.empty

\* bibdata[f[1]] = data[f[2]] for each f of fields, in order; data is a plain
\* dict, so the first absent key raises KeyError
RECURSIVE ReadFields(_, _, _)
ReadFields(b, pdata, fields) ==
    IF ~Running(b) \/ fields = <<>> THEN b
    ELSE LET f == Head(fields)
         IN IF f[2] \notin DOMAIN pdata THEN Failed(b, "KeyError")
            ELSE ReadFields([b EXCEPT !.bibdata = DictSet(@, f[1], pdata[f[2]])],
                            pdata, Tail(fields))

\* lines 301-320: publtype and bibtype
ResolveType(pdata) ==
    IF Key.publication_type \notin DOMAIN pdata THEN Failed(NoBib, "KeyError")
    ELSE IF ~IsStr(pdata[Key.publication_type]) THEN Failed(NoBib, "AttributeError")
    ELSE LET publtype == Lower(pdata[Key.publication_type].str)
         IN IF publtype = PublType.thesis
            THEN IF Key.publication_thesis_subtype \notin DOMAIN pdata THEN Failed(NoBib, "KeyError")
                 ELSE LET sub == pdata[Key.publication_thesis_subtype]
                      IN [NoBib EXCEPT !.publtype = publtype,
                                       !.bibtype = IF IsStr(sub)
                                                   THEN DictGetDefault(ThesisTypes, sub.str, Bib.misc)
                                                   ELSE Bib.misc]
            ELSE [NoBib EXCEPT !.publtype = publtype,
                               !.bibtype = DictGetDefault(Types, publtype, Bib.misc)]

\* lines 323-336: the fields of every type
BaseFields(b, pdata) ==
    IF ~Running(b) THEN b
    ELSE IF Key.id \notin DOMAIN pdata THEN Failed(b, "KeyError")
    ELSE ReadFields(
            [b EXCEPT !.bibdata = << <<"id", PyStr(Lit.faucrisDot \o ToStr(pdata[Key.id]))>>,
                                     <<"type", PyStr(b.bibtype)>> >>],
            pdata,
            << <<"year", Key.publyear>>, <<"title", Key.cftitle>>, <<"note", Key.note>>,
               <<"keywords", Key.keywords>>, <<"abstract", Key.cfabstr>>,
               <<"month", Key.monthcg>>, <<"url", Key.cfuri>>,
               <<"peerreviewed", Key.peerreviewed>>,
               <<"faupublication", Key.fau_publikation>>, <<"doi", Key.doi>> >>)

\* lines 337-338
StripAbstract(b) ==
    IF ~Running(b) THEN b
    ELSE LET abstract == DictGet(b.bibdata, "abstract")
         IN IF IsStr(abstract) /\ StartsWith(abstract.str, Lit.paragraphOpen)
            THEN [b EXCEPT !.bibdata = DictSet(@, "abstract",
                                               PyStr(Strip(SliceAbstract(abstract.str))))]
            ELSE b

\* lines 341-344; ('article') is a str, so `in` is the substring test
ArticleFields(b, pdata) ==
    IF Running(b) /\ StrContains(Bib.article, b.bibtype)
    THEN ReadFields(b, pdata, << <<"journal", Key.journalname>>, <<"volume", Key.book_volume>>,
                                <<"pages", Key.pagesrange>> >>)
    ELSE b

\* lines 346-354
BookFields(b, pdata) ==
    IF Running(b) /\ b.bibtype \in {Bib.book, Bib.incollection, PublType.editorial, Bib.inproceedings}
    THEN ReadFields(b, pdata, << <<"publisher", Key.publisher>>, <<"editor", Key.editor>>,
                                <<"isbn", Key.cfisbn>>, <<"volume", Key.book_volume>>,
                                <<"series", Key.cfseries>>, <<"edition", Key.cfedition>>,
                                <<"address", Key.cfcitytown>>, <<"pages", Key.pagesrange>> >>)
    ELSE b

\* lines 356-357
CollectionFields(b, pdata) ==
    IF Running(b) /\ StrContains(Bib.incollection, b.bibtype)
    THEN ReadFields(b, pdata, << <<"booktitle", Key.edited_volumes>> >>)
    ELSE b

\* lines 361-368
ConferenceFields(b, pdata) ==
    LET b1 == ReadFields(b, pdata, << <<"booktitle", Key.conference_proceedings_title>> >>)
        b2 == IF Running(b1) /\ (IsNone(DictGet(b1.bibdata, "booktitle"))
                                 \/ DictGet(b1.bibdata, "booktitle") = PyStr(<<>>))
              THEN ReadFields(b1, pdata, << <<"booktitle", Key.event_title>> >>)
              ELSE b1
        b3 == ReadFields(b2, pdata, << <<"venue", Key.event_location>>,
                                      <<"date", Key.event_start_date>> >>)
    IN IF ~Running(b3) \/ IsNone(DictGet(b3.bibdata, "date")) THEN b3
       ELSE IF Key.event_end_date \notin DOMAIN pdata THEN Failed(b3, "KeyError")
       ELSE IF IsNone(pdata[Key.event_end_date]) THEN b3
       ELSE [b3 EXCEPT !.bibdata = DictSet(@, "date",
                PyStr(DictGet(b3.bibdata, "date").str \o Lit.slash \o pdata[Key.event_end_date].str))]

\* lines 359-360: the condition of the conference fields
ProceedingsFields(b, pdata) ==
    IF ~Running(b) THEN b
    ELSE IF StrContains(Bib.inproceedings, b.bibtype) THEN ConferenceFields(b, pdata)
    ELSE IF StrContains(Bib.unpublished, b.bibtype)
    THEN IF Key.futurepublicationtype \notin DOMAIN pdata THEN Failed(b, "KeyError")
         ELSE IF ~IsStr(pdata[Key.futurepublicationtype]) THEN Failed(b, "AttributeError")
         ELSE IF Lower(pdata[Key.futurepublicationtype].str) = PublType.conference_contribution
         THEN ConferenceFields(b, pdata)
         ELSE b
    ELSE b

\* lines 370-371
ThesisFields(b) ==
    IF Running(b) /\ b.bibtype \in {Bib.phdthesis, Bib.masterthesis}
    THEN [b EXCEPT !.bibdata = DictSet(@, "school", PyStr(Lit.school))]
    ELSE b

\* lines 373-375
UnpublishedNote(b, pdata) ==
    IF Running(b) /\ b.bibtype = Bib.unpublished /\ ~Truthy(DictGet(b.bibdata, "note"))
    THEN [b EXCEPT !.bibdata = DictSet(@, "note", PyStr(Lit.publicWeb \o ToStr(pdata[Key.id])))]
    ELSE b

\* lines 377-386: data['exportauthors'] of a plain dict raises KeyError for an
\* absent key; the handler catches AttributeError only, which None.split raises
AuthorEditor(b, pdata) ==
    IF ~Running(b) THEN b
    ELSE IF Key.exportauthors \notin DOMAIN pdata THEN Failed(b, "KeyError")
    ELSE IF ~IsStr(pdata[Key.exportauthors]) THEN [b EXCEPT !.empty = TRUE]
    ELSE LET parts == Split(pdata[Key.exportauthors].str, Lit.pipe)
             names == [i \in 1..Len(parts) |-> Split(parts[i], Lit.colon)]
         IN IF \E i \in 1..Len(names) : Len(names[i]) # 2 THEN Failed(b, "ValueError")
            ELSE [b EXCEPT !.author_editor =
                    Join([i \in 1..Len(names) |-> names[i][1] \o Lit.commaSpace \o names[i][2]],
                         Lit.andSep)]

\* lines 389-393
IncompleteRelations(b, pdata) ==
    IF Running(b) /\ IsNone(GetItem(pdata, Key.complete_author_relations))
    THEN [b EXCEPT !.author_editor = @ \o Lit.etAl,
                   !.bibdata = DictSet(DictSet(@, "support_note", PyStr(Lit.supportNote)),
                                       "author_hint",
                                       IF Key.srcauthors \in DOMAIN pdata
                                       THEN pdata[Key.srcauthors] ELSE PyStr(<<>>))]
    ELSE b

\* lines 395-398
AssignAuthors(b) ==
    IF ~Running(b) THEN b
    ELSE [b EXCEPT !.bibdata = DictSet(@, IF b.publtype = PublType.editorial THEN "editor" ELSE "author",
                                       PyStr(b.author_editor))]

\* lines 401-402: the module never imports re, so re.findall raises NameError
MaskCaps(b, mask_caps) ==
    IF Running(b) /\ mask_caps THEN Failed(b, "NameError") ELSE b

\* line 416
RECURSIVE KickNone(_)
KickNone(bibdata) ==
    IF bibdata = <<>> THEN <<>>
    ELSE IF IsNone(Head(bibdata)[2]) THEN KickNone(Tail(bibdata))
    ELSE <<Head(bibdata)>> \o KickNone(Tail(bibdata))

\* Publication.toBibTeX, with bibtexparser installed; bibtexparser.dumps of
\* the one entry is kept as the entry itself
toBibTeX(pdata, mask_caps) ==
    LET b1 == StripAbstract(BaseFields(ResolveType(pdata), pdata))
        b2 == CollectionFields(BookFields(ArticleFields(b1, pdata), pdata), pdata)
        b3 == UnpublishedNote(ThesisFields(ProceedingsFields(b2, pdata)), pdata)
        b4 == AssignAuthors(IncompleteRelations(AuthorEditor(b3, pdata), pdata))
        b5 == MaskCaps(b4, mask_caps)
    IN IF b5.error # "none" THEN [state |-> "raised", error |-> b5.error, result |-> None]
       ELSE IF b5.empty THEN [state |-> "returned", error |-> "none", result |-> PyStr(<<>>)]
       ELSE [state |-> "returned", error |-> "none",
             result |-> [entries |-> <<KickNone(b5.bibdata)>>]]

\* one call of toBibTeX on a Publication; a batch is one call after another
PublicationToBibTeX(entity, mask_caps) ==
    /\ citEntity' = entity
    /\ citMask' = mask_caps
    /\ LET r == toBibTeX(entity, mask_caps)
       IN /\ citState' = r.state
          /\ citError' = r.error
          /\ citResult' = r.result
    /\ UNCHANGED <<selVars, fetchVars, fmtVars, entVars>>

(* inputs of the citation specification *)

\* a publication with every attribute toBibTeX reads
CompleteData ==
    (Key.publication_type :> PyStr(<<"B", "o", "o", "k">>))
    @@ (Key.publication_thesis_subtype :> PyStr(Sub.Dissertation))
    @@ (Key.id :> PyStr(<<"7">>))
    @@ (Key.publyear :> PyStr(<<"2", "0", "1", "5">>))
    @@ (Key.cftitle :> PyStr(<<"O", "n", " ", "x">>))
    @@ (Key.note :> None)
    @@ (Key.keywords :> None)
    @@ (Key.cfabstr :> PyStr(<<"<", "p", ">", " ", "a", "b", "<", "/", "p", ">", " ", " ">>))
    @@ (Key.monthcg :> None)
    @@ (Key.cfuri :> None)
    @@ (Key.peerreviewed :> PyStr(<<"Y", "e", "s">>))
    @@ (Key.fau_publikation :> PyStr(<<"y", "e", "s">>))
    @@ (Key.doi :> None)
    @@ (Key.journalname :> PyStr(<<"J">>))
    @@ (Key.book_volume :> PyStr(<<"3">>))
    @@ (Key.pagesrange :> None)
    @@ (Key.publisher :> PyStr(<<"P">>))
    @@ (Key.editor :> None)
    @@ (Key.cfisbn :> None)
    @@ (Key.cfseries :> None)
    @@ (Key.cfedition :> None)
    @@ (Key.cfcitytown :> None)
    @@ (Key.edited_volumes :> PyStr(<<"V">>))
    @@ (Key.futurepublicationtype :> None)
    @@ (Key.conference_proceedings_title :> None)
    @@ (Key.event_title :> PyStr(<<"E">>))
    @@ (Key.event_location :> None)
    @@ (Key.event_start_date :> PyStr(<<"1">>))
    @@ (Key.event_end_date :> PyStr(<<"2">>))
    @@ (Key.exportauthors :> PyStr(<<"S", ":", "J", "|", "D", ":", "K">>))
    @@ (Key.complete_author_relations :> PyStr(<<"1">>))
    @@ (Key.srcauthors :> PyStr(<<"S", " ", "J">>))

CitKeys == DOMAIN CompleteData

\* data without the key k (v = Absent), or with data[k] = v
Put(d, k, v) ==
    IF v = Absent THEN [x \in DOMAIN d \ {k} |-> d[x]] ELSE [d EXCEPT ![k] = v]

PublicationTypes ==
    {None, PyStr(<<"J", "o", "u", "r", "n", "a", "l", " ", "A", "r", "t", "i", "c", "l", "e">>),
     PyStr(<<"B", "o", "o", "k">>), PyStr(<<"E", "d", "i", "t", "o", "r", "i", "a", "l">>),
     PyStr(<<"A", "r", "t", "i", "c", "l", "e", " ", "i", "n", " ",
             "E", "d", "i", "t", "e", "d", " ", "V", "o", "l", "u", "m", "e", "s">>),
     PyStr(<<"C", "o", "n", "f", "e", "r", "e", "n", "c", "e", " ",
             "c", "o", "n", "t", "r", "i", "b", "u", "t", "i", "o", "n">>),
     PyStr(<<"T", "h", "e", "s", "i", "s">>), PyStr(<<"O", "t", "h", "e", "r">>)}
ExportAuthors ==
    {Absent, None, PyStr(<<"S", ":", "J", "|", "D", ":", "K">>), PyStr(<<"S">>)}
AuthorRelations == {Absent, PyStr(<<"1">>)}
OtherKeys == {<<Key.doi, None>>, <<Key.doi, Absent>>, <<Key.event_title, Absent>>}

CitEntities ==
    {Put(Put(Put(Put(CompleteData, Key.publication_type, t), Key.exportauthors, a),
             Key.complete_author_relations, c), o[1], o[2]) :
        t \in PublicationTypes, a \in ExportAuthors, c \in AuthorRelations, o \in OtherKeys}

CitationInit == SelIdle /\ FetchIdle /\ FmtIdle /\ CitIdle /\ EntIdle

CitationNext == \E entity \in CitEntities, mask_caps \in BOOLEAN : PublicationToBibTeX(entity, mask_caps)

CitationSpec == CitationInit /\ [][CitationNext]_vars

\* C10: whenever toBibTeX has been called on a publication whose exportauthors
\* attribute is absent while every other attribute it reads is present, the call
\* has returned the empty result and has raised nothing.
C10_AbsentAuthorsGiveEmptyResult ==
    (/\ citState # "none"
     /\ Key.exportauthors \notin DOMAIN citEntity
     /\ (CitKeys \ {Key.exportauthors}) \subseteq DOMAIN citEntity)
        => (citState = "returned" /\ citResult = PyStr(<<>>) /\ citError = "none")

----------------------------------------------------------------------------
(* CrisEntity(node), and the second loop of retrieve over a document *)

\* _class(_s) (line 87): CrisEntity.__init__ on one infoObject node
CrisEntityConstruct(node) ==
    /\ entRaw' = node
    /\ LET e == CrisEntityInit(node)
       IN /\ entState' = IF e.error = "none" THEN "built" ELSE "raised"
          /\ entError' = e.error
          /\ entData' = e.data
    /\ UNCHANGED <<mergeDoc, mergeState, mergeResult, mergeError>>
    /\ UNCHANGED <<selVars, fetchVars, fmtVars, citVars>>

\* lines 77-94 of retrieve for one fetched document and no selector
RetrieveMerge(doc) ==
    /\ mergeDoc' = doc
    /\ LET m == MergeDocs(<<doc>>, None, <<>>)
       IN /\ mergeState' = IF m.error = "none" THEN "returned" ELSE "raised"
          /\ mergeError' = m.error
          /\ mergeResult' = m.result
    /\ UNCHANGED <<entRaw, entState, entData, entError>>
    /\ UNCHANGED <<selVars, fetchVars, fmtVars, citVars>>

(* inputs of the entity specification *)
MaxChildren == 2

\* a child node: its tag, its name, language and disposition attributes, the
\* text of its data and additionalInfo sub-nodes (None for an empty node,
\* Absent for no such sub-node)
Child(tag, name, language, disposition, text, info) ==
    [tag |-> tag, name |-> PyStr(name), language |-> language,
     disposition |-> disposition, data |-> text, additionalInfo |-> info]

EntChildren == {
    Child(TagAttribute, <<"F">>, None, None, PyStr(<<"a">>), Absent),
    Child(TagAttribute, <<"F">>, PyStr(LanguageOne), None, PyStr(<<"b">>), Absent),
    Child(TagAttribute, <<"G">>, None, None, None, Absent),
    Child(TagAttribute, <<"G">>, None, None, Absent, Absent),
    Child(TagAttribute, <<"H">>, None, PyStr(ChoiceGroup), PyStr(<<"1">>), PyStr(<<"c">>)),
    Child(TagAttribute, <<"H">>, None, PyStr(ChoiceGroup), PyStr(<<"1">>), Absent),
    Child(<<"r", "e", "l", "a", "t", "i", "o", "n">>, <<"R">>, None, None, Absent, Absent) }

EntRecords ==
    {Record(id, children) : id \in {PyStr(<<"1">>), PyStr(<<"2">>)},
                            children \in SeqsUpTo(EntChildren, MaxChildren)}

\* the documents hold a well-formed record before or after another record
EntDocuments ==
    {<<r>> : r \in EntRecords}
        \cup {<<Record(PyStr(<<"1">>), <<Attribute(<<"F">>, <<"a">>)>>), r>> : r \in EntRecords}
        \cup {<<r, Record(PyStr(<<"1">>), <<Attribute(<<"F">>, <<"a">>)>>)>> : r \in EntRecords}

EntityInit == SelIdle /\ FetchIdle /\ FmtIdle /\ CitIdle /\ EntIdle

EntityNext ==
    \/ \E node \in EntRecords : entState = "none" /\ CrisEntityConstruct(node)
    \/ \E doc \in EntDocuments : mergeState = "none" /\ RetrieveMerge(doc)

EntitySpec == EntityInit /\ [][EntityNext]_vars

\* the name an attribute child is stored under (lines 229-232)
ChildName(c) ==
    IF c.language = PyStr(LanguageOne) THEN Lower(c.name.str) \o SuffixEn ELSE Lower(c.name.str)
\* the value of an attribute child: its additionalInfo text for a choice
\* group, its data text for any other; Absent when that sub-node is missing
ChildValue(c) == IF c.disposition = PyStr(ChoiceGroup) THEN c.additionalInfo ELSE c.data
AttributeChildren(node) ==
    {i \in 1..Len(node.children) : Lower(node.children[i].tag) = TagAttribute}
Unreadable(node) ==
    {i \in AttributeChildren(node) : ChildValue(node.children[i]) = Absent}
\* the children that no later child of the same name overwrites
LastOfName(node) ==
    {i \in AttributeChildren(node) :
        \A j \in AttributeChildren(node) :
            j > i => ChildName(node.children[j]) # ChildName(node.children[i])}

\* C11: whenever CrisEntity has been applied to a record with an attribute
\* child whose value cannot be read (no data sub-node, or no additionalInfo
\* sub-node for a choice group), it has built an entity that carries the
\* record's id and every readable attribute, with the unreadable attributes
\* unset; and whenever retrieve has merged a document that holds such a
\* record, it has returned and not raised.
C11_NormalizationIsBestEffort ==
    /\ (entState # "none" /\ Unreadable(entRaw) # {}) =>
          /\ entState = "built"
          /\ entData[Lower(NameId)] = entRaw.id
          /\ \A i \in LastOfName(entRaw) :
                LET c == entRaw.children[i]
                IN IF i \in Unreadable(entRaw)
                   THEN IsNone(GetItem(entData, ChildName(c)))
                   ELSE GetItem(entData, ChildName(c)) = ChildValue(c)
    /\ (mergeState # "none" /\ \E k \in 1..Len(mergeDoc) : Unreadable(mergeDoc[k]) # {}) =>
          mergeState = "returned"

====
